---- MODULE Spec2Model ----
(***************************************************************************)
(* Model of src/cursory.js: the Cursory cursor-trail controller, together  *)
(* with the three browser collaborators it drives: document.body (the set  *)
(* of attached elements), the window's mousemove listener list and the     *)
(* requestAnimationFrame callback queue.                                   *)
(*                                                                         *)
(* Numbers.  Pointer coordinates are whole pixels.  Marker coordinates are *)
(* held in fixed point, in units of 1/Scale pixel; followSpeed is a        *)
(* rational <<num, den>>.  A frame tick is modelled only where             *)
(* dx * followSpeed is a whole number of units (ExactTick), i.e. where the *)
(* arithmetic of animate is exact; rounding of IEEE doubles is not         *)
(* modelled.                                                               *)
(*                                                                         *)
(* Identities.  Elements, frame handles and bound functions are numbered;  *)
(* createElement and requestAnimationFrame reuse the number of an object   *)
(* nothing refers to any more.                                             *)
(*                                                                         *)
(* last is a history variable: the operation that produced the state.      *)
(***************************************************************************)
EXTENDS Integers, Sequences, FiniteSets, TLC

VARIABLES config, trails, maxTrails, animationFrame, isInitialized,
          mouseX, mouseY,
          body,        \* document.body: ids of the attached trail elements
          style,       \* element id -> style of every live trail element
          listeners,   \* window 'mousemove' listeners (bound function ids)
          frames,      \* pending requestAnimationFrame callbacks (handles)
          last         \* the call that produced this state

progVars == <<config, trails, maxTrails, animationFrame, isInitialized,
              mouseX, mouseY, body, style, listeners, frames>>
vars == <<config, trails, maxTrails, animationFrame, isInitialized,
          mouseX, mouseY, body, style, listeners, frames, last>>

-----------------------------------------------------------------------------
(* Bounds of the model *)

\* init attaches one listener per call and destroy never detaches it, so the
\* number of init calls of a run is the size of the listener list.
MaxInits == 2
\* fractional bits of a marker coordinate
FracBits == 0
\* largest trailLength passed by a caller
MaxLen == 2

Scale == 2 ^ FracBits

-----------------------------------------------------------------------------
(* Values *)

NULL == 0

\* rationals <<num, den>>
Half == <<1, 2>>
Zero == <<0, 1>>
One == <<1, 1>>

defaultOptions ==
    [trailColor |-> "#00ffea", trailLength |-> 10, trailSpeed |-> Half,
     cursorSize |-> 10, opacity |-> <<7, 10>>, followSpeed |-> <<1, 5>>]

\* { ...a, ...b }
Merge(a, b) ==
    [k \in (DOMAIN a) \cup (DOMAIN b) |-> IF k \in DOMAIN b THEN b[k] ELSE a[k]]

Has(c, k) == k \in DOMAIN c

\* JavaScript truthiness of newConfig.trailLength: undefined and 0 are falsy
Truthy(c, k) == Has(c, k) /\ c[k] # 0

EmptyConfig == [k \in {} |-> 0]

-----------------------------------------------------------------------------
(* Inputs *)

TrailLengths == 0 .. MaxLen
FollowSpeeds == {Zero, Half, One}
\* the pointer positions of mousemove events, <<clientX, clientY>>
Points == {<<0, 0>>, <<4, 8>>}

\* the partial configuration objects callers pass to init and updateConfig
Configs ==
    {EmptyConfig}
    \cup {[trailLength |-> k] : k \in TrailLengths}
    \cup {[followSpeed |-> f] : f \in FollowSpeeds}
    \cup {[trailLength |-> MaxLen, followSpeed |-> Half]}
    \cup {[cursorSize |-> 20, trailColor |-> "red", opacity |-> One, trailSpeed |-> One]}

-----------------------------------------------------------------------------
(* The browser *)

\* document.createElement: an element no live object refers to
createElement(used) == CHOOSE e \in 1 .. (Cardinality(used) + 1) : e \notin used

\* requestAnimationFrame: a handle that is not pending
requestAnimationFrame(pending) ==
    CHOOSE h \in 1 .. (Cardinality(pending) + 1) :
        h \notin pending /\ \A g \in 1 .. (h - 1) : g \in pending

\* cancelAnimationFrame(handle)
cancelAnimationFrame(pending, handle) == pending \ {handle}

\* faulty variant of bind: every call returns the same function
bind_same(existing) == 1

\* Function.prototype.bind: a new function object on every call
bind(existing) == Cardinality(existing) + 1

\* window.removeEventListener('mousemove', f): removes f itself, if registered
removeEventListener(ls, f) == ls \ {f}

-----------------------------------------------------------------------------
(* Trail creation: the loop bodies of init (40-51) and updateConfig (117-128) *)

\* faulty variant of pushTrail: the marker is created at the layout origin
pushTrail_atOrigin(D, cfg, mx, my) ==
    LET e == createElement(DOMAIN D.style)
        st == [width |-> cfg.cursorSize, height |-> cfg.cursorSize,
               backgroundColor |-> cfg.trailColor, opacity |-> cfg.opacity,
               transform |-> <<0, 0>>]
    IN [trails |-> Append(D.trails, [element |-> e, x |-> 0, y |-> 0]),
        body   |-> D.body \cup {e},
        style  |-> [d \in (DOMAIN D.style) \cup {e} |-> IF d = e THEN st ELSE D.style[d]]]

pushTrail(D, cfg, mx, my) ==
    LET e == createElement(DOMAIN D.style)
        st == [width |-> cfg.cursorSize, height |-> cfg.cursorSize,
               backgroundColor |-> cfg.trailColor, opacity |-> cfg.opacity,
               transform |-> <<mx * Scale, my * Scale>>]
    IN [trails |-> Append(D.trails, [element |-> e, x |-> mx * Scale, y |-> my * Scale]),
        body   |-> D.body \cup {e},
        style  |-> [d \in (DOMAIN D.style) \cup {e} |-> IF d = e THEN st ELSE D.style[d]]]

RECURSIVE createTrails_offByOne(_, _, _, _, _)
\* faulty variant of createTrails: the loop runs with i <= n
createTrails_offByOne(D, cfg, mx, my, n) ==
    IF n < 0 THEN D
    ELSE createTrails_offByOne(pushTrail(D, cfg, mx, my), cfg, mx, my, n - 1)

RECURSIVE createTrails(_, _, _, _, _)
createTrails(D, cfg, mx, my, n) ==
    IF n <= 0 THEN D
    ELSE createTrails(pushTrail(D, cfg, mx, my), cfg, mx, my, n - 1)

\* faulty variant of popTrail: the popped element is not removed from the page
popTrail_noRemove(D) ==
    LET t == D.trails[Len(D.trails)]
    IN [trails |-> SubSeq(D.trails, 1, Len(D.trails) - 1),
        body   |-> D.body,
        style  |-> D.style]

\* trails.pop() followed by document.body.removeChild(trail.element)
popTrail(D) ==
    LET t == D.trails[Len(D.trails)]
    IN [trails |-> SubSeq(D.trails, 1, Len(D.trails) - 1),
        body   |-> D.body \ {t.element},
        style  |-> [d \in (DOMAIN D.style) \ {t.element} |-> D.style[d]]]

RECURSIVE removeTrails(_, _)
removeTrails(D, n) ==
    IF n <= 0 \/ Len(D.trails) = 0 THEN D
    ELSE removeTrails(popTrail(D), n - 1)

\* the elements the marker sequence refers to
Elements(ts) == {ts[i].element : i \in 1 .. Len(ts)}

-----------------------------------------------------------------------------
(* animate, lines 74-91 *)

\* faulty variant of ease: the easing factor is dropped
ease_noFactor(pos, target, fs) ==
    IF fs[1] = 0 THEN pos ELSE pos + (target * Scale - pos)

\* faulty variant of ease: the step is subtracted
ease_away(pos, target, fs) == pos - ((target * Scale - pos) * fs[1]) \div fs[2]

\* pos += (target - pos) * followSpeed, in units of 1/Scale pixel
ease(pos, target, fs) == pos + ((target * Scale - pos) * fs[1]) \div fs[2]

\* the step is a whole number of units on both axes of every marker
ExactTick(ts, mx, my, fs) ==
    \A i \in 1 .. Len(ts) :
        /\ ((mx * Scale - ts[i].x) * fs[1]) % fs[2] = 0
        /\ ((my * Scale - ts[i].y) * fs[1]) % fs[2] = 0

\* faulty variant of moveTrails: every marker but the first follows the marker
\* before it instead of the pointer
moveTrails_chain(ts, mx, my, fs) ==
    [i \in 1 .. Len(ts) |->
        IF i = 1
        THEN [ts[i] EXCEPT !.x = ease(ts[i].x, mx, fs), !.y = ease(ts[i].y, my, fs)]
        ELSE [ts[i] EXCEPT !.x = ts[i].x + ((ts[i - 1].x - ts[i].x) * fs[1]) \div fs[2],
                           !.y = ts[i].y + ((ts[i - 1].y - ts[i].y) * fs[1]) \div fs[2]]]

moveTrails(ts, mx, my, fs) ==
    [i \in 1 .. Len(ts) |->
        [ts[i] EXCEPT !.x = ease(ts[i].x, mx, fs), !.y = ease(ts[i].y, my, fs)]]

\* trail.element.style.transform = translate(x px, y px)
applyTransform(st, ts) ==
    [e \in DOMAIN st |->
        IF \E i \in 1 .. Len(ts) : ts[i].element = e
        THEN LET i == CHOOSE j \in 1 .. Len(ts) : ts[j].element = e
             IN [st[e] EXCEPT !.transform = <<ts[i].x, ts[i].y>>]
        ELSE st[e]]

-----------------------------------------------------------------------------
(* The operations *)

Init ==
    /\ config = EmptyConfig
    /\ trails = <<>>
    /\ maxTrails = 10
    /\ animationFrame = NULL
    /\ isInitialized = FALSE
    /\ mouseX = 0
    /\ mouseY = 0
    /\ body = {}
    /\ style = <<>>
    /\ listeners = {}
    /\ frames = {}
    /\ last = [op |-> "none", wasInit |-> FALSE, threw |-> FALSE, twice |-> FALSE,
               event |-> <<>>]

\* op was called: in an initialized state or not, throwing or not; twice marks
\* a destroy called directly after a destroy; event is the position a
\* mousemove event carried
CalledWith(op, threw, e) ==
    last' = [op |-> op, wasInit |-> isInitialized, threw |-> threw,
             twice |-> (op = "destroy" /\ last.op = "destroy"), event |-> e]

Called(op, threw) == CalledWith(op, threw, <<>>)

\* faulty variant of followFactor: the easing reads trailSpeed
followFactor_trailSpeed(c) == c.trailSpeed

\* lines 80-81: the easing factor is this.config.followSpeed
followFactor(c) == c.followSpeed

init(cfg) ==
    LET c  == Merge(defaultOptions, cfg)
        D  == createTrails([trails |-> trails, body |-> body, style |-> style],
                           c, mouseX, mouseY, c.trailLength)
        ts == moveTrails(D.trails, mouseX, mouseY, followFactor(c))
        h  == requestAnimationFrame(frames)
    IN /\ Cardinality(listeners) < MaxInits
       /\ ExactTick(D.trails, mouseX, mouseY, followFactor(c))
       /\ config' = c
       /\ maxTrails' = c.trailLength
       /\ trails' = ts
       /\ body' = D.body
       /\ style' = applyTransform(D.style, ts)
       /\ listeners' = listeners \cup {bind(listeners)}
       /\ frames' = frames \cup {h}
       /\ animationFrame' = h
       /\ isInitialized' = TRUE
       /\ UNCHANGED <<mouseX, mouseY>>
       /\ Called("init", FALSE)

\* faulty variant of trackMouse: clientX is stored in both coordinates
trackMouse_xTwice(e) ==
    /\ mouseX' = e[1]
    /\ mouseY' = e[1]

trackMouse(e) ==
    /\ mouseX' = e[1]
    /\ mouseY' = e[2]

\* the window dispatches a mousemove event to every registered listener
MouseMove(e) ==
    /\ IF listeners # {} THEN trackMouse(e) ELSE UNCHANGED <<mouseX, mouseY>>
    /\ UNCHANGED <<config, trails, maxTrails, animationFrame, isInitialized,
                   body, style, listeners, frames>>
    /\ CalledWith("mousemove", FALSE, e)

\* faulty variant of animate: the callback does not request another frame
animate_once(h) ==
    LET ts == moveTrails(trails, mouseX, mouseY, followFactor(config))
    IN /\ h \in frames
       /\ ExactTick(trails, mouseX, mouseY, followFactor(config))
       /\ trails' = ts
       /\ style' = applyTransform(style, ts)
       /\ frames' = frames \ {h}
       /\ UNCHANGED <<config, maxTrails, animationFrame, isInitialized, mouseX, mouseY,
                      body, listeners>>
       /\ Called("animate", FALSE)

\* the browser runs the pending frame callback h, which is animate
animate(h) ==
    LET ts == moveTrails(trails, mouseX, mouseY, followFactor(config))
        pending == frames \ {h}
        g == requestAnimationFrame(pending)
    IN /\ h \in frames
       /\ ExactTick(trails, mouseX, mouseY, followFactor(config))
       /\ trails' = ts
       /\ style' = applyTransform(style, ts)
       /\ frames' = pending \cup {g}
       /\ animationFrame' = g
       /\ UNCHANGED <<config, maxTrails, isInitialized, mouseX, mouseY, body, listeners>>
       /\ Called("animate", FALSE)

\* line 112
resizes(newConfig) == Truthy(newConfig, "trailLength") /\ newConfig.trailLength # maxTrails

\* faulty variant of restyle: the opacity is not applied
restyle_noOpacity(st, ts, c) ==
    [e \in DOMAIN st |->
        IF \E i \in 1 .. Len(ts) : ts[i].element = e
        THEN [st[e] EXCEPT !.width = c.cursorSize, !.height = c.cursorSize,
                           !.backgroundColor = c.trailColor]
        ELSE st[e]]

\* lines 104-109
restyle(st, ts, c) ==
    [e \in DOMAIN st |->
        IF \E i \in 1 .. Len(ts) : ts[i].element = e
        THEN [st[e] EXCEPT !.width = c.cursorSize, !.height = c.cursorSize,
                           !.backgroundColor = c.trailColor, !.opacity = c.opacity]
        ELSE st[e]]

\* lines 100-139: the body of updateConfig behind its guard
updateConfigBody(newConfig) ==
    LET c  == Merge(config, newConfig)
        D0 == [trails |-> trails, body |-> body, style |-> restyle(style, trails, c)]
        k  == newConfig.trailLength
        grow == resizes(newConfig) /\ k > maxTrails
        shrink == resizes(newConfig) /\ ~(k > maxTrails)
        \* trails.pop() on an empty array yields undefined; trail.element throws
        throws == shrink /\ maxTrails - k > Len(trails)
        D  == IF grow THEN createTrails(D0, c, mouseX, mouseY, k - maxTrails)
              ELSE IF shrink THEN removeTrails(D0, maxTrails - k)
              ELSE D0
    IN /\ config' = c
       /\ trails' = D.trails
       /\ body' = D.body
       /\ style' = D.style
       /\ maxTrails' = IF resizes(newConfig) /\ ~throws THEN c.trailLength ELSE maxTrails
       /\ UNCHANGED <<animationFrame, isInitialized, mouseX, mouseY, listeners, frames>>
       /\ Called("updateConfig", throws)

\* faulty variant of updateConfig: the isInitialized guard of line 98 is missing
updateConfig_unguarded(newConfig) == updateConfigBody(newConfig)

updateConfig(newConfig) ==
    IF ~isInitialized
    THEN UNCHANGED progVars /\ Called("updateConfig", FALSE)
    ELSE updateConfigBody(newConfig)

\* faulty variant of detachAll: the loop starts at the second marker
detachAll_skipFirst(bd, ts) == bd \ {ts[i].element : i \in 2 .. Len(ts)}

\* lines 149-151: document.body.removeChild for every marker
detachAll(bd, ts) == bd \ {ts[i].element : i \in 1 .. Len(ts)}

\* faulty variant of destroy: no isInitialized guard and the marker sequence
\* is not cleared, so a second call hands removeChild elements that are no
\* longer children of document.body, which throws
destroy_unguardedKeepTrails ==
    /\ body' = detachAll(body, trails)
    /\ listeners' = removeEventListener(listeners, bind(listeners))
    /\ frames' = cancelAnimationFrame(frames, animationFrame)
    /\ animationFrame' = NULL
    /\ isInitialized' = FALSE
    /\ UNCHANGED <<config, trails, style, maxTrails, mouseX, mouseY>>
    /\ Called("destroy", ~(Elements(trails) \subseteq body))

destroy ==
    IF ~isInitialized
    THEN UNCHANGED progVars /\ Called("destroy", FALSE)
    ELSE
      /\ body' = detachAll(body, trails)
      /\ trails' = <<>>
      \* the detached elements are no longer referenced
      /\ style' = [e \in (DOMAIN style) \cap detachAll(body, trails) |-> style[e]]
      /\ listeners' = removeEventListener(listeners, bind(listeners))
      /\ frames' = cancelAnimationFrame(frames, animationFrame)
      /\ animationFrame' = NULL
      /\ isInitialized' = FALSE
      /\ UNCHANGED <<config, maxTrails, mouseX, mouseY>>
      /\ Called("destroy", FALSE)

Next ==
    \/ \E cfg \in Configs : init(cfg)
    \/ \E e \in Points : MouseMove(e)
    \/ \E h \in frames : animate(h)
    \/ \E newConfig \in Configs : updateConfig(newConfig)
    \/ destroy

Spec == Init /\ [][Next]_vars

\* Callers that pass a trailLength the code does not validate: a negative
\* one next to valid ones.
MalformedLengths == {-1, 1, 2}

MalformedConfigs == {[trailLength |-> k] : k \in MalformedLengths}

NextMalformed ==
    \/ \E cfg \in MalformedConfigs : init(cfg)
    \/ \E e \in Points : MouseMove(e)
    \/ \E h \in frames : animate(h)
    \/ \E newConfig \in MalformedConfigs : updateConfig(newConfig)
    \/ destroy

SpecMalformed == Init /\ [][NextMalformed]_vars

\* The frame loop under the browser's scheduling: a requested frame callback
\* that stays pending is eventually run.  The follow speeds are 0 and 1, for
\* which every tick is exact at any resolution, so that the tick is enabled
\* whenever a callback is pending, as it is in the browser.
LiveSpeeds == {Zero, One}

LiveConfigs ==
    {[trailLength |-> k, followSpeed |-> f] : k \in 1 .. MaxLen, f \in LiveSpeeds}

LiveUpdates ==
    LiveConfigs \cup {[trailLength |-> k] : k \in 1 .. MaxLen}
                \cup {[followSpeed |-> f] : f \in LiveSpeeds}

NextLive ==
    \/ \E cfg \in LiveConfigs : init(cfg)
    \/ \E e \in Points : MouseMove(e)
    \/ \E h \in frames : animate(h)
    \/ \E newConfig \in LiveUpdates : updateConfig(newConfig)
    \/ destroy

SpecLive == Init /\ [][NextLive]_vars /\ WF_vars(\E h \in frames : animate(h))

-----------------------------------------------------------------------------
(* Properties *)

AtPointer(t) == t.x = mouseX * Scale /\ t.y = mouseY * Scale

\* squared distance of a marker at <<x, y>> to the pointer <<mx, my>>
Dist2(x, y, mx, my) ==
    (mx * Scale - x) * (mx * Scale - x) + (my * Scale - y) * (my * Scale - y)

\* C1 (as claimed): in an initialized state, updateConfig({trailLength: k})
\* with k >= 0 leaves exactly k markers in the sequence.
C1_ExactlyK ==
    [][\A nc \in Configs :
          (isInitialized /\ Has(nc, "trailLength") /\ nc.trailLength >= 0
              /\ updateConfig(nc))
          => Len(trails') = nc.trailLength]_vars

\* C2 (as claimed): destroy from an initialized state leaves no mousemove
\* listener on the window, and a mousemove event after it leaves mouseX and
\* mouseY unchanged.
C2_ListenerDetached ==
    [][/\ (last'.op = "destroy" /\ isInitialized) => listeners' = {}
       /\ (last'.op = "mousemove" /\ ~isInitialized)
              => (mouseX' = mouseX /\ mouseY' = mouseY)]_vars

\* C3 (as claimed): while the controller is not initialized (in particular
\* from the return of destroy until the next init) no frame callback is
\* pending, so animate cannot run.
C3_NoPendingFrame == ~isInitialized => frames = {}

\* C4: destroy leaves isInitialized false, and while the controller is not
\* initialized, whatever pointer moves or frame callbacks arrive, no marker
\* element is attached to the page, the marker sequence is empty and no live
\* element holds a position.
C4_TeardownLeavesNothing ==
    /\ last.op = "destroy" => ~isInitialized
    /\ ~isInitialized => (trails = <<>> /\ body = {} /\ DOMAIN style = {})

\* a pointer move delivered after a teardown
C4_Witness ==
    /\ last.op = "mousemove" /\ ~last.wasInit
    /\ listeners # {} /\ mouseX = 4

\* C5 (as claimed): after every init the sequence holds exactly
\* config.trailLength markers, each at the pointer position, and
\* isInitialized is true.
C5_InitExact ==
    last.op = "init" =>
        /\ Len(trails) = config.trailLength
        /\ \A i \in 1 .. Len(trails) : AtPointer(trails[i])
        /\ isInitialized

\* C5 (amended): after an init called while isInitialized was false, the
\* sequence holds exactly config.trailLength markers (10 when the caller gave
\* none), each at the pointer position, and isInitialized is true.
C5_InitFromIdle ==
    (last.op = "init" /\ ~last.wasInit) =>
        /\ Len(trails) = config.trailLength
        /\ \A i \in 1 .. Len(trails) : AtPointer(trails[i])
        /\ isInitialized

\* init with the default trailLength after the pointer was seen at <<4, 8>>
C5_Witness ==
    /\ last.op = "init" /\ ~last.wasInit
    /\ Len(trails) = 10 /\ mouseX = 4 /\ mouseY = 8

\* C6: a frame tick moves every marker, on each axis, from pos to
\* pos + (target - pos) * followSpeed, target being the pointer; from 0 with
\* the pointer at 100 and followSpeed 1/2 that is 50, then 75.
C6_EaseStep ==
    [][last'.op = "animate" =>
         /\ Len(trails') = Len(trails)
         /\ \A i \in 1 .. Len(trails) :
              LET num == config.followSpeed[1]
                  den == config.followSpeed[2]
              IN /\ den * trails'[i].x = den * trails[i].x + (mouseX * Scale - trails[i].x) * num
                 /\ den * trails'[i].y = den * trails[i].y + (mouseY * Scale - trails[i].y) * num
                 /\ trails'[i].element = trails[i].element
                 /\ style'[trails[i].element].transform = <<trails'[i].x, trails'[i].y>>
         /\ ease(0, 100, Half) = 50 * Scale
         /\ ease(50 * Scale, 100, Half) = 75 * Scale]_vars

\* MaxLen markers created at <<0, 0>>, the pointer moved to <<4, 8>>, two
\* ticks at followSpeed 1/2: every marker is at three quarters of the way
C6_Witness ==
    /\ last.op = "animate" /\ config.followSpeed = Half
    /\ Len(trails) = MaxLen /\ mouseX = 4
    /\ \A i \in 1 .. Len(trails) : trails[i].x = 3 * Scale /\ trails[i].y = 6 * Scale

\* C7 (as claimed): for followSpeed in 0..1 a frame tick strictly decreases
\* every marker's distance to the pointer, or leaves it at zero.
C7_StrictApproach ==
    [][last'.op = "animate" =>
         \A i \in 1 .. Len(trails) :
            LET d  == Dist2(trails[i].x, trails[i].y, mouseX, mouseY)
                dd == Dist2(trails'[i].x, trails'[i].y, mouseX, mouseY)
            IN dd < d \/ (d = 0 /\ dd = 0)]_vars

\* C7 (amended): a frame tick never increases a marker's distance to the
\* pointer and leaves a zero distance at zero; for 0 < followSpeed <= 1 it
\* strictly decreases every non-zero distance, for followSpeed = 0 the marker
\* does not move.
C7_Approach ==
    [][last'.op = "animate" =>
         \A i \in 1 .. Len(trails) :
            LET d  == Dist2(trails[i].x, trails[i].y, mouseX, mouseY)
                dd == Dist2(trails'[i].x, trails'[i].y, mouseX, mouseY)
            IN /\ dd <= d
               /\ (config.followSpeed[1] > 0 /\ d > 0) => dd < d
               /\ config.followSpeed[1] = 0 =>
                      (trails'[i].x = trails[i].x /\ trails'[i].y = trails[i].y)]_vars

\* a tick at followSpeed 1/2 that brought a marker half way to the pointer
C7_Witness ==
    /\ last.op = "animate" /\ config.followSpeed = Half /\ mouseX = 4
    /\ \E i \in 1 .. Len(trails) : trails[i].x = 2 * Scale /\ trails[i].y = 4 * Scale

\* C8: a destroy called directly after a destroy changes nothing of the
\* controller, the page, the listeners or the frame queue, and does not throw.
C8_DestroyTwice ==
    [][(last.op = "destroy" /\ last'.op = "destroy") =>
           (UNCHANGED progVars /\ ~last'.threw)]_vars

\* the second of two consecutive destroy calls, the first one a real teardown
C8_Witness ==
    /\ last.op = "destroy" /\ last.twice /\ ~last.wasInit
    /\ listeners # {}

\* C9: updateConfig called while isInitialized is false changes nothing
\* (configuration, markers, maxTrails, page, listeners, frame handle) and
\* does not throw.
C9_UpdateConfigGuard ==
    [][(last'.op = "updateConfig" /\ ~isInitialized) =>
           (UNCHANGED progVars /\ ~last'.threw)]_vars

\* updateConfig called after a teardown
C9_Witness ==
    /\ last.op = "updateConfig" /\ ~last.wasInit
    /\ listeners # {} /\ config # EmptyConfig

\* C10 (as claimed): updateConfig with a trailLength k below the marker count
\* n removes exactly the last n - k markers and detaches their elements; the
\* first k markers keep identity, order, position and style.
C10_ShrinkKeepsPrefix ==
    [][\A nc \in Configs :
          (isInitialized /\ Has(nc, "trailLength") /\ nc.trailLength >= 0
              /\ nc.trailLength < Len(trails) /\ updateConfig(nc))
          => /\ trails' = SubSeq(trails, 1, nc.trailLength)
             /\ body' = body \ {trails[i].element : i \in (nc.trailLength + 1) .. Len(trails)}
             /\ \A i \in 1 .. nc.trailLength :
                   style'[trails[i].element] = style[trails[i].element]]_vars

\* C11 (as claimed): updateConfig with a trailLength k above the marker count
\* n appends exactly k - n markers, each at the pointer, and keeps the n
\* existing markers in order and position.
C11_GrowAppends ==
    [][\A nc \in Configs :
          (isInitialized /\ Has(nc, "trailLength") /\ nc.trailLength > Len(trails)
              /\ updateConfig(nc))
          => /\ Len(trails') = nc.trailLength
             /\ \A i \in 1 .. Len(trails) :
                   /\ trails'[i].element = trails[i].element
                   /\ trails'[i].x = trails[i].x /\ trails'[i].y = trails[i].y
             /\ \A i \in (Len(trails) + 1) .. Len(trails') :
                   /\ trails'[i].x = mouseX * Scale /\ trails'[i].y = mouseY * Scale
                   /\ trails'[i].element \notin Elements(trails)]_vars

\* C11 (amended): the same, for a call made while the marker count n equals
\* maxTrails.
C11_GrowFromBound ==
    [][\A nc \in Configs :
          (isInitialized /\ Has(nc, "trailLength") /\ nc.trailLength > Len(trails)
              /\ Len(trails) = maxTrails /\ updateConfig(nc))
          => /\ Len(trails') = nc.trailLength
             /\ \A i \in 1 .. Len(trails) :
                   /\ trails'[i].element = trails[i].element
                   /\ trails'[i].x = trails[i].x /\ trails'[i].y = trails[i].y
             /\ \A i \in (Len(trails) + 1) .. Len(trails') :
                   /\ trails'[i].x = mouseX * Scale /\ trails'[i].y = mouseY * Scale
                   /\ trails'[i].element \notin Elements(trails)]_vars

\* one marker created by init at <<0, 0>> and moved half way, a second one
\* added by updateConfig at the pointer <<4, 8>>
C11_Witness ==
    /\ last.op = "updateConfig" /\ last.wasInit /\ Cardinality(listeners) = 1
    /\ Len(trails) = 2 /\ maxTrails = 2 /\ mouseX = 4
    /\ trails[1].x = 2 * Scale /\ trails[2].x = 4 * Scale /\ trails[2].y = 8 * Scale

\* C12: updateConfig in an initialized state leaves the configuration equal
\* to the shallow merge of the old one with newConfig, and every marker of
\* the sequence, old or new, with the merged cursorSize, trailColor and
\* opacity.
C12_MergeAndRestyle ==
    [][\A nc \in Configs :
          (isInitialized /\ updateConfig(nc))
          => /\ DOMAIN config' = (DOMAIN config) \cup (DOMAIN nc)
             /\ \A k \in DOMAIN config' :
                   config'[k] = IF k \in DOMAIN nc THEN nc[k] ELSE config[k]
             /\ \A i \in 1 .. Len(trails') :
                   LET st == style'[trails'[i].element]
                   IN /\ st.width = config'.cursorSize
                      /\ st.height = config'.cursorSize
                      /\ st.backgroundColor = config'.trailColor
                      /\ st.opacity = config'.opacity]_vars

\* markers created with the default style and restyled by updateConfig
C12_Witness ==
    /\ last.op = "updateConfig" /\ last.wasInit
    /\ config.cursorSize = 20 /\ config.trailLength = 10
    /\ Len(trails) = 10
    /\ \A i \in 1 .. Len(trails) : style[trails[i].element].backgroundColor = "red"

\* C15: init called in an initialized state adds one more mousemove listener
\* to those already on the window, keeps every marker of the sequence and
\* appends the trailLength markers of the new call, all of them attached.
C15_InitDuplicates ==
    [][\A cfg \in Configs :
          (isInitialized /\ init(cfg))
          => /\ listeners \subseteq listeners'
             /\ Cardinality(listeners') = Cardinality(listeners) + 1
             /\ Cardinality(listeners') >= 2
             /\ Len(trails') = Len(trails) + Merge(defaultOptions, cfg).trailLength
             /\ \A i \in 1 .. Len(trails) : trails'[i].element = trails[i].element
             /\ Elements(trails') \subseteq body'
             /\ Cardinality(Elements(trails')) = Len(trails')]_vars

\* two init calls with the default trailLength and no destroy
C15_Witness ==
    /\ last.op = "init" /\ last.wasInit
    /\ Cardinality(listeners) = 2
    /\ Len(trails) = 20 /\ Cardinality(body) = 20

\* C17: a mousemove event stores its coordinates in mouseX and mouseY and
\* changes nothing else: markers, elements, configuration, maxTrails, flag,
\* listeners and frame handle stay as they are.
C17_TrackMouseFrame ==
    [][last'.op = "mousemove" =>
          /\ UNCHANGED <<config, trails, maxTrails, animationFrame, isInitialized,
                         body, style, listeners, frames>>
          /\ listeners # {} => (mouseX' = last'.event[1] /\ mouseY' = last'.event[2])
          /\ listeners = {} => (mouseX' = mouseX /\ mouseY' = mouseY)]_vars

\* the pointer moved to <<4, 8>> while the markers stayed at <<0, 0>>
C17_Witness ==
    /\ last.op = "mousemove" /\ last.wasInit /\ last.event = <<4, 8>>
    /\ mouseX = 4 /\ mouseY = 8
    /\ Len(trails) = MaxLen
    /\ \A i \in 1 .. Len(trails) : trails[i].x = 0 /\ trails[i].y = 0

\* C18 (as claimed): whenever isInitialized is true, the number of markers
\* equals maxTrails, which equals config.trailLength.
C18_CountIsBound ==
    isInitialized => (Len(trails) = maxTrails /\ maxTrails = config.trailLength)

\* C19: the elements attached to the page are exactly the elements of the
\* marker sequence, each referenced once.
C19_AttachedAreMarkers ==
    /\ body = Elements(trails)
    /\ Cardinality(Elements(trails)) = Len(trails)
    /\ DOMAIN style = body

\* the default ten markers cut down to one by updateConfig
C19_Witness ==
    /\ last.op = "updateConfig" /\ last.wasInit /\ Cardinality(listeners) = 1
    /\ config.trailLength = 1 /\ Len(trails) = 1 /\ body = {1}
    /\ config.followSpeed = defaultOptions.followSpeed /\ config.cursorSize = 20

\* C20: markers that coincide keep coinciding for as long as both exist, and
\* the markers one call creates coincide (at the pointer); so two markers
\* created by the same call have equal positions in every later state.
C20_Coincide ==
    [][/\ \A i, j \in 1 .. Len(trails) :
             (i <= Len(trails') /\ j <= Len(trails')
                 /\ trails[i].x = trails[j].x /\ trails[i].y = trails[j].y)
             => (trails'[i].x = trails'[j].x /\ trails'[i].y = trails'[j].y)
       /\ \A i, j \in (Len(trails) + 1) .. Len(trails') :
             trails'[i].x = trails'[j].x /\ trails'[i].y = trails'[j].y]_vars

\* ten markers of one init, after a pointer move and a tick at followSpeed 1/2
C20_Witness ==
    /\ last.op = "animate" /\ Len(trails) = 10 /\ mouseX = 4
    /\ \A i \in 1 .. Len(trails) : trails[i].x = 2 * Scale /\ trails[i].y = 4 * Scale

\* C13 (as claimed): no operation raises an error, whatever trailLength init
\* and updateConfig are given, a negative one included.
C13_NeverThrows == ~last.threw

\* C16: while isInitialized is true the frame handle the controller holds is
\* a pending callback, after every operation and every tick; and with frame
\* callbacks scheduled fairly, whenever an operation other than the tick has
\* run in an initialized state, a tick runs later unless destroy is called.
C16_LoopKeepsRunning ==
    /\ [](isInitialized => (animationFrame \in frames))
    /\ (isInitialized /\ last.op # "animate") ~> (last.op = "animate" \/ ~isInitialized)

\* a tick that ran after updateConfig and a pointer move, and is pending again
C16_Witness ==
    /\ last.op = "animate" /\ isInitialized /\ animationFrame \in frames
    /\ Cardinality(listeners) = 1
    /\ config.followSpeed = One
    /\ mouseX = 4 /\ Len(trails) = MaxLen
    /\ \A i \in 1 .. Len(trails) : trails[i].x = 4 * Scale /\ trails[i].y = 8 * Scale

\* the values of trailSpeed the callers pass: the default and the override
TrailSpeeds == {Half, One}

\* the configurations that differ from c in the value of trailSpeed only
SpeedVariants(c) ==
    IF Has(c, "trailSpeed") THEN {[c EXCEPT !.trailSpeed = v] : v \in TrailSpeeds}
    ELSE {c}

SameButSpeed(a, b) ==
    /\ DOMAIN a = DOMAIN b
    /\ \A k \in (DOMAIN a) \ {"trailSpeed"} : a[k] = b[k]

Positions(ts) == [i \in 1 .. Len(ts) |-> <<ts[i].x, ts[i].y>>]

\* the markers of a run that holds configuration c2 and is otherwise in the
\* current state, after updateConfig(nc2)
OtherRunUpdate(c2, nc2) ==
    LET c  == Merge(c2, nc2)
        D0 == [trails |-> trails, body |-> body, style |-> style]
        k  == nc2.trailLength
    IN IF ~isInitialized \/ ~resizes(nc2) THEN trails
       ELSE IF k > maxTrails
            THEN createTrails(D0, c, mouseX, mouseY, k - maxTrails).trails
            ELSE removeTrails(D0, maxTrails - k).trails

====
